---- MODULE Spec2Model ----
(***************************************************************************)
(* Self-pipe bridge of src/platform/unix/mod.rs: the global PIPE, the      *)
(* signal handler os_handler, the installer init_os_handler and the        *)
(* waiter block_ctrl_c, together with the part of the kernel they act on   *)
(* (descriptor table, pipe buffers, signal dispositions).                  *)
(***************************************************************************)
EXTENDS Integers, Sequences, FiniteSets

\* ---------------------------------------------------------------- bounds
NumFds == 4          \* descriptors the process may still open (RLIMIT_NOFILE)
PipeCap == 1         \* bytes a pipe buffer holds before a write would block
MaxInitCalls == 2    \* calls of init_os_handler in one behaviour
MaxSignals == 2      \* invocations of os_handler in one behaviour

VARIABLES
    termination,  \* cfg(feature = "termination"), fixed at build time
    alive,        \* FALSE once a signal with the default disposition killed the process
    fdt,          \* kernel descriptor table: fd -> [pipe, end, nonblock]
    pending,      \* kernel pipe buffers: pipe -> number of bytes pending
    nPipes,       \* pipes created so far
    blocked,      \* pipe -> handler invocations blocked in write(2)
    disp,         \* kernel signal dispositions: signal -> handler
    PIPE,         \* static mut PIPE: <<PIPE.0, PIPE.1>>
    ipc,          \* position of the running init_os_handler call
    overwrite,    \* its argument
    newpipe,      \* the value pipe2 returned, being stored into PIPE
    tostore,      \* components of PIPE not yet stored
    cur,          \* index in TargetSeq of the signal being installed
    old,          \* sigint_old, sigterm_old, sighup_old
    todo,         \* dispositions still to restore on the failure path
    err,          \* the error the failure path will return
    init_ret,     \* what the last init_os_handler call returned
    wpc,          \* position of the running block_ctrl_c call
    wpipe,        \* the pipe its read(2) is sleeping on
    wait_ret,     \* what the last block_ctrl_c call returned
    hist          \* history: counters and snapshots the properties read

vars == <<termination, alive, fdt, pending, nPipes, blocked, disp, PIPE, ipc,
          overwrite, newpipe, tostore, cur, old, todo, err, init_ret, wpc,
          wpipe, wait_ret, hist>>

kernelVars == <<fdt, pending, nPipes, blocked, disp>>
initVars == <<ipc, overwrite, newpipe, tostore, cur, old, todo, err, init_ret>>
waitVars == <<wpc, wpipe, wait_ret>>

\* ------------------------------------------------------- kernel objects
Sigs == {"SIGINT", "SIGTERM", "SIGHUP"}
Fds == 3..(2 + NumFds)
PipeIds == 1..MaxInitCalls
ClosedFd == [pipe |-> 0, end |-> "-", nonblock |-> FALSE]

\* The initial value of the global: no descriptor.
PIPE_INIT == <<-1, -1>>

\* Mutant: the SIGHUP block is left out of the termination build.
TargetSeq_NoHup ==
    IF termination THEN <<"SIGINT", "SIGTERM">> ELSE <<"SIGINT">>

\* Signals init_os_handler installs for, in install order.
TargetSeq ==
    IF termination THEN <<"SIGINT", "SIGTERM", "SIGHUP">> ELSE <<"SIGINT">>

Targets == {TargetSeq[i] : i \in 1..Len(TargetSeq)}

IsOpen(fd) == fd \in Fds /\ fdt[fd].pipe # 0

FreeFds == {f \in Fds : fdt[f].pipe = 0}

LowestFree(S) == CHOOSE f \in S : \A g \in S : f <= g

OpenEnds(p, e) == {f \in Fds : fdt[f].pipe = p /\ fdt[f].end = e}

\* The pipe the descriptor PIPE.0 names now, 0 when it names none.
CurPipe == IF IsOpen(PIPE[1]) THEN fdt[PIPE[1]].pipe ELSE 0

\* Mutant: os_handler writes to the read end, write(PIPE.0): the kernel
\* answers EBADF whatever descriptor the global holds.
WriteResult_WrongEnd(fd) == "EBADF"

\* rustix::io::write(fd, &[0u8]) as the kernel answers it.
WriteResult(fd) ==
    IF ~IsOpen(fd) \/ fdt[fd].end # "w" THEN "EBADF"
    ELSE IF OpenEnds(fdt[fd].pipe, "r") = {} THEN "EPIPE"
    ELSE IF pending[fdt[fd].pipe] < PipeCap THEN "Ok"
    ELSE IF fdt[fd].nonblock THEN "EAGAIN"
    ELSE "BLOCK"

\* ---------------------------------------------------------------- Init
InitDisps == {"SigDfl", "SigIgn", "Custom"}

HistInit ==
    [calls |-> 0, oks |-> 0, oks0 |-> 0, delivered |-> 0, writes |-> 0,
     waitOk |-> 0, swaps |-> 0, failedAt |-> "none",
     disp0 |-> [s \in Sigs |-> "SigDfl"], pipe0 |-> PIPE_INIT,
     okDelivered |-> 0, okWaitOk |-> 0, okPending |-> 0, okIdle |-> TRUE,
     okPipes |-> {},
     intr |-> FALSE]

Init ==
    /\ termination \in BOOLEAN
    /\ alive = TRUE
    /\ fdt = [f \in Fds |-> ClosedFd]
    /\ pending = [p \in PipeIds |-> 0]
    /\ nPipes = 0
    /\ blocked = [p \in PipeIds |-> 0]
    /\ disp \in [Sigs -> InitDisps]
    /\ \A s \in Sigs \ Targets : disp[s] = "SigDfl"
    /\ PIPE = PIPE_INIT
    /\ ipc = "idle"
    /\ overwrite = FALSE
    /\ newpipe = PIPE_INIT
    /\ tostore = {}
    /\ cur = 0
    /\ old = [s \in Sigs |-> "none"]
    /\ todo = <<>>
    /\ err = "none"
    /\ init_ret = "none"
    /\ wpc = "idle"
    /\ wpipe = 0
    /\ wait_ret = "none"
    /\ hist = HistInit

\* ------------------------------------------------------ init_os_handler
\* Errors the OS calls of init_os_handler can fail with.
Pipe2Errnos == {"EMFILE", "ENFILE"}
FcntlErrno == "EINVAL"
SigactionErrno == "EINVAL"
EEXIST == "EEXIST"

\* The handler the new action carries.
NewHandler == "os_handler"

\* Mutant: a disposition that already is os_handler is not a conflict.
Conflict_ExceptOwn(ow, prev) == ~ow /\ prev \notin {"SigDfl", "os_handler"}

\* Mutant: only a handler function is a conflict, SIG_IGN is not.
Conflict_CustomOnly(ow, prev) == ~ow /\ prev = "Custom"

\* Mutant: the test forgets `!overwrite`.
Conflict_IgnoresOverwrite(ow, prev) == prev # "SigDfl"

\* `!overwrite && old.handler() != SigHandler::SigDfl`
Conflict(ow, prev) == ~ow /\ prev # "SigDfl"

\* Mutant: the failure path of a later swap forgets to restore SIGINT.
RestoreOnError_SkipFirst(k) == SubSeq(TargetSeq, 2, k - 1)

\* Dispositions restored when the swap of TargetSeq[k] itself failed.
RestoreOnError(k) == SubSeq(TargetSeq, 1, k - 1)

\* Mutant: the conflict arms restore the last swapped signal first.
RestoreOnConflict_Reversed(k) == [i \in 1..k |-> TargetSeq[k + 1 - i]]

\* Dispositions restored when the swap of TargetSeq[k] found a conflict.
RestoreOnConflict(k) == SubSeq(TargetSeq, 1, k)

\* Where the failure path starts: the restores when there are any, then
\* close_pipe.
FailPc(rs) == IF rs = <<>> THEN "close1" ELSE "restore"

\* The call: init_os_handler(ow).
InitCall(ow) ==
    /\ alive /\ ipc = "idle" /\ hist.calls < MaxInitCalls
    /\ ipc' = "pipe2"
    /\ overwrite' = ow
    /\ old' = [s \in Sigs |-> "none"]
    /\ todo' = <<>>
    /\ err' = "none"
    /\ cur' = 0
    /\ init_ret' = "running"
    /\ hist' = [hist EXCEPT !.calls = @ + 1, !.swaps = 0, !.failedAt = "none",
                            !.disp0 = disp, !.pipe0 = PIPE, !.oks0 = hist.oks]
    /\ UNCHANGED <<termination, alive, kernelVars, PIPE, newpipe, tostore, waitVars>>

\* Mutant: the failed creation resets the global before returning the error.
Pipe2Fail_ClobbersPipe ==
    /\ alive /\ ipc = "pipe2"
    /\ \E e \in {"EMFILE", "ENFILE"} :
        /\ (e = "EMFILE") = (Cardinality(FreeFds) < 2)
        /\ init_ret' = e
    /\ ipc' = "idle"
    /\ PIPE' = PIPE_INIT
    /\ hist' = [hist EXCEPT !.failedAt = "pipe2"]
    /\ UNCHANGED <<termination, alive, kernelVars, overwrite, newpipe,
                   tostore, cur, old, todo, err, waitVars>>

\* `pipe2(OFlags::CLOEXEC)?` fails: the error is returned, PIPE is not assigned.
Pipe2Fail ==
    /\ alive /\ ipc = "pipe2"
    /\ \E e \in Pipe2Errnos :
        /\ (e = "EMFILE") = (Cardinality(FreeFds) < 2)
        /\ init_ret' = e
    /\ ipc' = "idle"
    /\ hist' = [hist EXCEPT !.failedAt = "pipe2"]
    /\ UNCHANGED <<termination, alive, kernelVars, PIPE, overwrite, newpipe,
                   tostore, cur, old, todo, err, waitVars>>

\* pipe2 succeeds: the two lowest free descriptors name a new, empty pipe.
Pipe2Ok ==
    /\ alive /\ ipc = "pipe2"
    /\ Cardinality(FreeFds) >= 2
    /\ LET r == LowestFree(FreeFds)
           w == LowestFree(FreeFds \ {r})
           p == nPipes + 1
       IN /\ fdt' = [fdt EXCEPT ![r] = [pipe |-> p, end |-> "r", nonblock |-> FALSE],
                                ![w] = [pipe |-> p, end |-> "w", nonblock |-> FALSE]]
          /\ nPipes' = p
          /\ newpipe' = <<r, w>>
    /\ tostore' = {1, 2}
    /\ ipc' = "store"
    /\ UNCHANGED <<termination, alive, pending, blocked, disp, PIPE, overwrite,
                   cur, old, todo, err, init_ret, waitVars, hist>>

\* `PIPE = ...`: a plain store to a static mut that os_handler and
\* block_ctrl_c read without synchronisation; the two words land in either
\* order.
StorePipe ==
    /\ alive /\ ipc = "store"
    /\ \E i \in tostore :
        /\ PIPE' = [PIPE EXCEPT ![i] = newpipe[i]]
        /\ tostore' = tostore \ {i}
        /\ ipc' = IF tostore = {i} THEN "setfl" ELSE "store"
    /\ UNCHANGED <<termination, alive, kernelVars, overwrite, newpipe, cur,
                   old, todo, err, init_ret, waitVars, hist>>

\* `fcntl_setfl(PIPE.1, OFlags::NONBLOCK)`; on error close_pipe(e).
SetNonblock ==
    /\ alive /\ ipc = "setfl"
    /\ \/ /\ IsOpen(PIPE[2])
          /\ fdt' = [fdt EXCEPT ![PIPE[2]].nonblock = TRUE]
          /\ ipc' = "swap"
          /\ cur' = 1
          /\ UNCHANGED <<err, todo, hist>>
       \/ /\ err' = FcntlErrno
          /\ todo' = <<>>
          /\ ipc' = FailPc(<<>>)
          /\ hist' = [hist EXCEPT !.failedAt = "fcntl"]
          /\ UNCHANGED <<fdt, cur>>
    /\ UNCHANGED <<termination, alive, pending, nPipes, blocked, disp, PIPE,
                   overwrite, newpipe, tostore, old, init_ret, waitVars>>

\* `sigaction(sig, &new_action)` fails: restore what was changed, close_pipe(e).
SwapFail ==
    /\ alive /\ ipc = "swap"
    /\ err' = SigactionErrno
    /\ todo' = RestoreOnError(cur)
    /\ ipc' = FailPc(RestoreOnError(cur))
    /\ hist' = [hist EXCEPT !.swaps = @ + 1, !.failedAt = "sigaction"]
    /\ UNCHANGED <<termination, alive, kernelVars, PIPE, overwrite, newpipe,
                   tostore, cur, old, init_ret, waitVars>>

\* `sigaction(sig, &new_action)` succeeds and returns the old action; then the
\* conflict test, and either the failure path, the next signal, or Ok(()).
SwapOk ==
    /\ alive /\ ipc = "swap"
    /\ LET sig == TargetSeq[cur]
           prev == disp[sig]
       IN /\ disp' = [disp EXCEPT ![sig] = NewHandler]
          /\ old' = [old EXCEPT ![sig] = prev]
          /\ IF Conflict(overwrite, prev)
             THEN /\ err' = EEXIST
                  /\ todo' = RestoreOnConflict(cur)
                  /\ ipc' = FailPc(RestoreOnConflict(cur))
                  /\ hist' = [hist EXCEPT !.swaps = @ + 1, !.failedAt = "conflict"]
                  /\ UNCHANGED <<cur, init_ret>>
             ELSE IF cur < Len(TargetSeq)
             THEN /\ cur' = cur + 1
                  /\ hist' = [hist EXCEPT !.swaps = @ + 1]
                  /\ UNCHANGED <<err, todo, ipc, init_ret>>
             ELSE /\ ipc' = "idle"
                  /\ init_ret' = "Ok"
                  /\ hist' = [hist EXCEPT !.swaps = @ + 1, !.oks = @ + 1,
                                          !.okDelivered = hist.delivered,
                                          !.okWaitOk = hist.waitOk,
                                          !.okPending =
                                              IF CurPipe = 0 THEN 0 ELSE pending[CurPipe],
                                          !.okIdle = (wpc = "idle"),
                                          !.okPipes = @ \cup {CurPipe}]
                  /\ UNCHANGED <<err, todo, cur>>
    /\ UNCHANGED <<termination, alive, fdt, pending, nPipes, blocked, PIPE,
                   overwrite, newpipe, tostore, waitVars>>

\* `sigaction(sig, &sig_old).unwrap()`: puts the old action back, or panics.
Restore ==
    /\ alive /\ ipc = "restore"
    /\ \/ /\ disp' = [disp EXCEPT ![Head(todo)] = old[Head(todo)]]
          /\ todo' = Tail(todo)
          /\ ipc' = FailPc(Tail(todo))
       \/ /\ ipc' = "panicked"
          /\ UNCHANGED <<disp, todo>>
    /\ UNCHANGED <<termination, alive, fdt, pending, nPipes, blocked, PIPE,
                   overwrite, newpipe, tostore, cur, old, err, init_ret,
                   waitVars, hist>>

\* Mutant: close_pipe closes the write end PIPE held when the call began.
ClosePipe1_Stale ==
    /\ alive /\ ipc = "close1"
    /\ fdt' = IF IsOpen(hist.pipe0[2]) THEN [fdt EXCEPT ![hist.pipe0[2]] = ClosedFd]
              ELSE fdt
    /\ ipc' = "close0"
    /\ UNCHANGED <<termination, alive, pending, nPipes, blocked, disp, PIPE,
                   overwrite, newpipe, tostore, cur, old, todo, err, init_ret,
                   waitVars, hist>>

\* close_pipe: `close(PIPE.1)`.
ClosePipe1 ==
    /\ alive /\ ipc = "close1"
    /\ fdt' = IF IsOpen(PIPE[2]) THEN [fdt EXCEPT ![PIPE[2]] = ClosedFd] ELSE fdt
    /\ ipc' = "close0"
    /\ UNCHANGED <<termination, alive, pending, nPipes, blocked, disp, PIPE,
                   overwrite, newpipe, tostore, cur, old, todo, err, init_ret,
                   waitVars, hist>>

\* close_pipe: `close(PIPE.0)`, then `return Err(e)`.
ClosePipe0 ==
    /\ alive /\ ipc = "close0"
    /\ fdt' = IF IsOpen(PIPE[1]) THEN [fdt EXCEPT ![PIPE[1]] = ClosedFd] ELSE fdt
    /\ ipc' = "idle"
    /\ init_ret' = err
    /\ UNCHANGED <<termination, alive, pending, nPipes, blocked, disp, PIPE,
                   overwrite, newpipe, tostore, cur, old, todo, err, waitVars, hist>>

\* ----------------------------------------------------------- os_handler
\* The kernel delivers a target signal and acts on its disposition; for
\* os_handler that is one write of one byte to PIPE.1, the result dropped.
Deliver(sig) ==
    /\ alive
    /\ IF disp[sig] = "os_handler"
       THEN LET res == WriteResult(PIPE[2])
                p == IF IsOpen(PIPE[2]) THEN fdt[PIPE[2]].pipe ELSE 0
            IN /\ hist.delivered < MaxSignals
               /\ pending' = IF res = "Ok" THEN [pending EXCEPT ![p] = @ + 1] ELSE pending
               /\ blocked' = IF res = "BLOCK" THEN [blocked EXCEPT ![p] = @ + 1] ELSE blocked
               /\ hist' = [hist EXCEPT !.delivered = @ + 1,
                                       !.writes = IF res = "Ok" THEN @ + 1 ELSE @]
               /\ alive' = alive
       ELSE /\ alive' = (disp[sig] # "SigDfl")
            /\ UNCHANGED <<pending, blocked, hist>>
    /\ UNCHANGED <<termination, fdt, nPipes, disp, PIPE, initVars, waitVars>>

\* A write that blocked in os_handler completes once the pipe has room.
HandlerUnblock(p) ==
    /\ alive /\ blocked[p] > 0 /\ pending[p] < PipeCap
    /\ pending' = [pending EXCEPT ![p] = @ + 1]
    /\ blocked' = [blocked EXCEPT ![p] = @ - 1]
    /\ hist' = [hist EXCEPT !.writes = @ + 1]
    /\ UNCHANGED <<termination, alive, fdt, nPipes, disp, PIPE, initVars, waitVars>>

\* ---------------------------------------------------------- block_ctrl_c
\* The call: block_ctrl_c().
WaitCall ==
    /\ alive /\ wpc = "idle"
    /\ wpc' = "loop"
    /\ wait_ret' = "running"
    /\ UNCHANGED <<termination, alive, kernelVars, PIPE, initVars, wpipe, hist>>

\* `read(PIPE.0, &mut buf)` enters the kernel: a bad descriptor fails at once
\* (`Err(e) => return Err(e.into())`), a good one binds the call to its pipe.
ReadEnter ==
    /\ alive /\ wpc = "loop"
    /\ IF IsOpen(PIPE[1]) /\ fdt[PIPE[1]].end = "r"
       THEN /\ wpc' = "inread"
            /\ wpipe' = fdt[PIPE[1]].pipe
            /\ UNCHANGED wait_ret
       ELSE /\ wpc' = "idle"
            /\ wpipe' = 0
            /\ wait_ret' = "EBADF"
    /\ hist' = [hist EXCEPT !.intr = FALSE]
    /\ UNCHANGED <<termination, alive, kernelVars, PIPE, initVars>>

\* Mutant: the read peeks, the byte stays in the pipe.
ReadOne_KeepsByte ==
    /\ alive /\ wpc = "inread" /\ pending[wpipe] > 0
    /\ wpc' = "idle"
    /\ wpipe' = 0
    /\ wait_ret' = "Ok"
    /\ hist' = [hist EXCEPT !.waitOk = @ + 1]
    /\ UNCHANGED <<termination, alive, kernelVars, PIPE, initVars>>

\* Mutant: the byte is taken from the pipe PIPE.0 names when the read
\* returns, not from the pipe the read was started on.
ReadOne_FromCurrent ==
    /\ alive /\ wpc = "inread" /\ pending[wpipe] > 0
    /\ pending' = [pending EXCEPT ![CurPipe] = @ - 1]
    /\ wpc' = "idle"
    /\ wpipe' = 0
    /\ wait_ret' = "Ok"
    /\ hist' = [hist EXCEPT !.waitOk = @ + 1]
    /\ UNCHANGED <<termination, alive, fdt, nPipes, blocked, disp, PIPE, initVars>>

\* The read returns one byte: `Ok(1) => break`, then `Ok(())`.
ReadOne ==
    /\ alive /\ wpc = "inread" /\ pending[wpipe] > 0
    /\ pending' = [pending EXCEPT ![wpipe] = @ - 1]
    /\ wpc' = "idle"
    /\ wpipe' = 0
    /\ wait_ret' = "Ok"
    /\ hist' = [hist EXCEPT !.waitOk = @ + 1]
    /\ UNCHANGED <<termination, alive, fdt, nPipes, blocked, disp, PIPE, initVars>>

\* Mutant: a read of zero bytes is retried like an interrupted one.
ReadEof_Retries ==
    /\ alive /\ wpc = "inread" /\ pending[wpipe] = 0
    /\ OpenEnds(wpipe, "w") = {}
    /\ wpc' = "loop"
    /\ wpipe' = 0
    /\ UNCHANGED <<termination, alive, kernelVars, PIPE, initVars, wait_ret, hist>>

\* Mutant: a read of zero bytes ends the loop like a read of one byte.
ReadEof_ReturnsOk ==
    /\ alive /\ wpc = "inread" /\ pending[wpipe] = 0
    /\ OpenEnds(wpipe, "w") = {}
    /\ wpc' = "idle"
    /\ wpipe' = 0
    /\ wait_ret' = "Ok"
    /\ hist' = [hist EXCEPT !.waitOk = @ + 1]
    /\ UNCHANGED <<termination, alive, kernelVars, PIPE, initVars>>

\* The read returns zero bytes, every write end being closed:
\* `Ok(_) => return Err(UnexpectedEof)`.
ReadEof ==
    /\ alive /\ wpc = "inread" /\ pending[wpipe] = 0
    /\ OpenEnds(wpipe, "w") = {}
    /\ wpc' = "idle"
    /\ wpipe' = 0
    /\ wait_ret' = "UnexpectedEof"
    /\ UNCHANGED <<termination, alive, kernelVars, PIPE, initVars, hist>>

\* Mutant: EINTR is propagated like any other errno.
ReadEintr_ReturnsErr ==
    /\ alive /\ wpc = "inread" /\ pending[wpipe] = 0
    /\ OpenEnds(wpipe, "w") # {}
    /\ wpc' = "idle"
    /\ wpipe' = 0
    /\ wait_ret' = "EINTR"
    /\ hist' = [hist EXCEPT !.intr = TRUE]
    /\ UNCHANGED <<termination, alive, kernelVars, PIPE, initVars>>

\* The sleeping read is interrupted by an unrelated signal:
\* `Err(Errno::INTR) => {}`, and the loop reads again.
ReadEintr ==
    /\ alive /\ wpc = "inread" /\ pending[wpipe] = 0
    /\ OpenEnds(wpipe, "w") # {}
    /\ wpc' = "loop"
    /\ wpipe' = 0
    /\ hist' = [hist EXCEPT !.intr = TRUE]
    /\ UNCHANGED <<termination, alive, kernelVars, PIPE, initVars, wait_ret>>

\* ------------------------------------------------------- specification
InitStep ==
    \/ \E ow \in BOOLEAN : InitCall(ow)
    \/ Pipe2Fail
    \/ Pipe2Ok
    \/ StorePipe
    \/ SetNonblock
    \/ SwapFail
    \/ SwapOk
    \/ Restore
    \/ ClosePipe1
    \/ ClosePipe0

HandlerStep ==
    \/ \E sig \in Targets : Deliver(sig)
    \/ \E p \in PipeIds : HandlerUnblock(p)

WaitStep ==
    \/ WaitCall
    \/ ReadEnter
    \/ ReadOne
    \/ ReadEof
    \/ ReadEintr

Next == InitStep \/ HandlerStep \/ WaitStep

Spec == Init /\ [][Next]_vars

\* The waiter is an ordinary thread the OS keeps scheduling: its loop makes
\* the next call, a read(2) on a bad descriptor fails, and a read(2) with a
\* byte or an end of stream to return returns.
FairSpec ==
    /\ Spec
    /\ WF_vars(WaitCall)
    /\ WF_vars(ReadEnter)
    /\ WF_vars(ReadOne)
    /\ WF_vars(ReadEof)

\* ------------------------------------------------------------ properties
\* The target set as the build configuration fixes it.
TargetSet == IF termination THEN Sigs ELSE {"SIGINT"}

\* A call of init_os_handler has returned and none has been made since.
Returned == ipc = "idle" /\ init_ret \notin {"none", "running"}
ReturnedOk == ipc = "idle" /\ init_ret = "Ok"
ReturnedErr == Returned /\ init_ret # "Ok"

\* The last call met a failing OS call (pipe2, fcntl or sigaction).
OsCallFailed == hist.failedAt \in {"pipe2", "fcntl", "sigaction"}

AllInstalled == \A t \in TargetSet : disp[t] = "os_handler"

\* The first successful install, with no call of init_os_handler since, and
\* block_ctrl_c called only after it ("Must be called after calling
\* init_os_handler()").
Installed == ReturnedOk /\ hist.oks = 1 /\ hist.okIdle

\* Invocations of os_handler, and Ok returns of block_ctrl_c, since that install.
DeliveredSince == hist.delivered - hist.okDelivered
WaitOkSince == hist.waitOk - hist.okWaitOk

\* A call of block_ctrl_c is in progress.
Waiting == wpc # "idle"

\* C1: after init_os_handler returned Ok with the pipe empty: with at most one
\* target signal delivered since, no more calls of block_ctrl_c have returned
\* Ok than signals were delivered; once one signal is delivered, a call of
\* block_ctrl_c returns Ok; and a call waiting when every delivered signal has
\* been consumed does not return before another signal is delivered.
C1_OneSignalOneWait ==
    /\ []((Installed /\ hist.okPending = 0 /\ DeliveredSince <= 1)
            => WaitOkSince <= DeliveredSince)
    /\ (Installed /\ hist.okPending = 0 /\ DeliveredSince = 1)
            ~> (WaitOkSince = 1 \/ ~Installed \/ DeliveredSince > 1)
    /\ [][(/\ Installed /\ hist.okPending = 0
            /\ WaitOkSince = DeliveredSince /\ Waiting
            /\ Installed' /\ DeliveredSince' = DeliveredSince)
           => wpc' # "idle"]_vars

\* One signal was delivered after the install, one call returned Ok, and the
\* next call is asleep in read.
C1_Witness ==
    /\ Installed /\ hist.okPending = 0 /\ DeliveredSince = 1 /\ WaitOkSince = 1
    /\ wpc = "inread" /\ wpipe = CurPipe /\ pending[CurPipe] = 0

\* C2: after init_os_handler returned Ok, once N >= 1 target signals have been
\* delivered and no call of block_ctrl_c has returned Ok since, a call of
\* block_ctrl_c eventually returns Ok.
C2_AtLeastOneWait ==
    (Installed /\ DeliveredSince >= 1 /\ WaitOkSince = 0)
        ~> (WaitOkSince >= 1 \/ ~Installed)

\* Two signals were delivered while no call was pending, the second write
\* found the pipe full, and one call has returned Ok.
C2_Witness ==
    /\ Installed /\ hist.calls = 1 /\ ~termination
    /\ DeliveredSince = 2 /\ hist.writes = 1 /\ WaitOkSince = 1

\* C3: init_os_handler(false), called with every target signal at its default
\* disposition, never takes the conflict path and, unless an OS call failed,
\* returns Ok(()); and whenever init_os_handler has returned Ok(()), os_handler
\* is the disposition of every signal of the target set.
C3_InstallOnDefaults ==
    /\ (~overwrite /\ hist.calls > 0 /\ \A t \in TargetSet : hist.disp0[t] = "SigDfl")
          => /\ hist.failedAt # "conflict"
             /\ (Returned /\ ~OsCallFailed) => init_ret = "Ok"
    /\ ReturnedOk => AllInstalled

C3_Witness ==
    /\ ReturnedOk /\ ~overwrite /\ termination
    /\ \A t \in TargetSet : hist.disp0[t] = "SigDfl"

\* C4 as claimed: a call with overwrite = false made after an earlier call
\* returned Ok returns EEXIST, and every target signal still has os_handler.
C4_Original ==
    (Returned /\ ~overwrite /\ hist.oks0 >= 1)
        => (init_ret = EEXIST /\ AllInstalled)

\* C4 as amended: such a call never returns Ok(()); it returns EEXIST unless
\* one of its OS calls failed (then it returns that OS error); and after it
\* returned, every target signal still has os_handler.
C4_SecondInstall ==
    (Returned /\ ~overwrite /\ hist.oks0 >= 1)
        => /\ init_ret # "Ok"
           /\ ~OsCallFailed => init_ret = EEXIST
           /\ AllInstalled

C4_Witness ==
    /\ Returned /\ ~overwrite /\ hist.oks0 >= 1 /\ termination
    /\ init_ret = EEXIST /\ hist.failedAt = "conflict"

\* C5: when init_os_handler has returned an error, every target signal has the
\* disposition it had when the call was made.
C5_RollbackRestores ==
    ReturnedErr => \A t \in TargetSet : disp[t] = hist.disp0[t]

\* The swap of the third signal failed after the two before it were swapped
\* away from a custom handler and from the default.
C5_Witness ==
    /\ ReturnedErr /\ termination /\ hist.failedAt = "sigaction" /\ hist.swaps = 3
    /\ hist.disp0["SIGINT"] = "Custom" /\ hist.disp0["SIGTERM"] = "SigDfl"

\* C6: init_os_handler(false) has returned EEXIST exactly when a swap of the
\* call returned a previous disposition other than the default.
C6_ConflictIff ==
    (Returned /\ ~overwrite)
        => ((init_ret = EEXIST) <=> \E t \in TargetSet : old[t] \notin {"none", "SigDfl"})

C6_Witness ==
    /\ Returned /\ ~overwrite /\ init_ret = EEXIST /\ termination
    /\ old["SIGINT"] = "SigDfl" /\ old["SIGTERM"] = "SigIgn"

\* C7: init_os_handler(true) never takes the conflict path nor returns EEXIST,
\* and when it has returned without a failing OS call it returned Ok(()) with
\* os_handler installed for every target signal.
C7_OverwriteInstalls ==
    (overwrite /\ hist.calls > 0)
        => /\ hist.failedAt # "conflict"
           /\ init_ret # EEXIST
           /\ (Returned /\ ~OsCallFailed) => (init_ret = "Ok" /\ AllInstalled)

C7_Witness ==
    /\ ReturnedOk /\ overwrite /\ termination
    /\ hist.disp0["SIGINT"] = "Custom" /\ hist.disp0["SIGHUP"] = "SigIgn"

\* C8 as claimed: when init_os_handler has returned an error after creating a
\* pipe, both descriptors of that pipe are closed and PIPE is (-1, -1).
C8_Original ==
    (ReturnedErr /\ hist.failedAt # "pipe2")
        => /\ ~IsOpen(newpipe[1]) /\ ~IsOpen(newpipe[2])
           /\ PIPE = PIPE_INIT

\* C9 as claimed: once a call of init_os_handler has returned Ok, both
\* descriptors held in PIPE are open.
C9_Original ==
    hist.oks >= 1 => (IsOpen(PIPE[1]) /\ IsOpen(PIPE[2]))

\* C10: when pipe creation failed, init_os_handler returned that error, made
\* no sigaction call, left every disposition as it was and left PIPE with the
\* value it had before the call.
C10_PipeFailureFrame ==
    (Returned /\ hist.failedAt = "pipe2")
        => /\ init_ret \in Pipe2Errnos
           /\ hist.swaps = 0
           /\ disp = hist.disp0
           /\ PIPE = hist.pipe0

\* Pipe creation failed in a call made while PIPE held an earlier pipe.
C10_Witness ==
    /\ Returned /\ hist.failedAt = "pipe2" /\ init_ret \in Pipe2Errnos
    /\ hist.pipe0 # PIPE_INIT /\ hist.oks >= 1

\* C11: a read of block_ctrl_c that fails with EINTR does not make the call
\* return and leaves every pipe's pending bytes as they were; the call is back
\* at the top of its loop, and its next step is another read, however many
\* reads were interrupted before.
C11_EintrRetries ==
    /\ [][(wpc = "inread" /\ hist.intr')
            => (wpc' = "loop" /\ wait_ret' = "running" /\ pending' = pending)]_vars
    /\ [](hist.intr => (wpc = "loop" /\ wait_ret = "running"))
    /\ [][(hist.intr /\ wpc' # wpc)
            => (wpc' = "inread" \/ wait_ret' = "EBADF")]_vars

\* The read of a call made after the install was interrupted; the call is
\* about to read again and a byte has arrived meanwhile.
C11_Witness ==
    /\ hist.intr /\ wpc = "loop" /\ wait_ret = "running"
    /\ Installed /\ pending[CurPipe] = 1

\* PIPE.0 names an open read end, so read(PIPE.0) does not fail with EBADF.
ReadableFd == IsOpen(PIPE[1]) /\ fdt[PIPE[1]].end = "r"

\* C12: a call of block_ctrl_c returns Ok(()) only from a read that took one
\* byte out of the pipe, UnexpectedEof only from a read of zero bytes, an errno
\* only from a read that failed with it; and a read of zero bytes or a failed
\* read (other than EINTR) makes the call return that error at once, without
\* another read.
C12_ReturnValues ==
    /\ [][(wpc # "idle" /\ wpc' = "idle")
            => \/ /\ wait_ret' = "Ok"
                  /\ wpc = "inread" /\ pending[wpipe] >= 1
                  /\ pending' = [pending EXCEPT ![wpipe] = @ - 1]
               \/ /\ wait_ret' = "UnexpectedEof"
                  /\ wpc = "inread" /\ pending[wpipe] = 0
                  /\ OpenEnds(wpipe, "w") = {}
               \/ /\ wait_ret' = "EBADF"
                  /\ wpc = "loop" /\ ~ReadableFd]_vars
    /\ [][(/\ wpc = "inread" /\ pending[wpipe] = 0
            /\ OpenEnds(wpipe, "w") = {} /\ wpc' # wpc)
           => (wpc' = "idle" /\ wait_ret' = "UnexpectedEof")]_vars
    /\ [][(wpc = "loop" /\ ~ReadableFd /\ wpc' # wpc)
           => (wpc' = "idle" /\ wait_ret' = "EBADF")]_vars

\* A call that was asleep on the pipe of a failing install has returned
\* UnexpectedEof after close_pipe closed the write end.
C12_Witness ==
    /\ wpc = "idle" /\ wait_ret = "UnexpectedEof"
    /\ ReturnedErr /\ hist.failedAt = "conflict"

\* An invocation of os_handler: the kernel ran it for a delivered signal.
HandlerInvoked == hist.delivered' = hist.delivered + 1

\* The pipe PIPE.1 names, 0 when it names none.
WritePipe == IF IsOpen(PIPE[2]) THEN fdt[PIPE[2]].pipe ELSE 0

\* C13 as claimed: an invocation of os_handler adds one pending byte to the
\* pipe of PIPE.1 when its write succeeds and none when it fails, changes
\* nothing else, and does not block.
C13_Original ==
    [][HandlerInvoked
        => /\ WriteResult(PIPE[2]) # "BLOCK"
           /\ blocked' = blocked
           /\ pending' = IF WriteResult(PIPE[2]) = "Ok"
                         THEN [pending EXCEPT ![WritePipe] = @ + 1]
                         ELSE pending
           /\ UNCHANGED <<alive, fdt, nPipes, disp, PIPE, initVars, waitVars>>]_vars

\* Position of a signal in the install order.
InstallRank == [s \in Sigs |-> CASE s = "SIGINT" -> 1 [] s = "SIGTERM" -> 2 [] s = "SIGHUP" -> 3]

\* The failure path has just put one disposition back.
RestoredOne == ipc = "restore" /\ todo' = Tail(todo)

PipeClosedOrClosing ==
    ~IsOpen(PIPE[1]) \/ ~IsOpen(PIPE[2]) \/ ipc \in {"close1", "close0"}

SomeInstalled == \E t \in TargetSet : disp[t] = "os_handler"

\* C15 as claimed: while the descriptors in PIPE are closed or being closed,
\* no target signal has os_handler as its disposition.
C15_Original == PipeClosedOrClosing => ~SomeInstalled

\* C16 as claimed: while some target signal has os_handler as its
\* disposition, the descriptor in PIPE.1 is open with the non-blocking flag set.
C16_Original == SomeInstalled => (IsOpen(PIPE[2]) /\ fdt[PIPE[2]].nonblock)

RECURSIVE SumPending(_)
\* Bytes pending in the pipes of S.
SumPending(S) ==
    IF S = {} THEN 0
    ELSE LET p == CHOOSE q \in S : TRUE IN pending[p] + SumPending(S \ {p})

\* A block_ctrl_c call returns.
WaitReturns == wpc # "idle" /\ wpc' = "idle"

C18_Original ==
    (ipc # "idle" /\ ~overwrite /\ hist.failedAt = "conflict")
        => \A t \in TargetSet : old[t] = "Custom" => disp[t] # "os_handler"

\* C20: the Ok(()) returns of block_ctrl_c are at most the successful writes
\* of os_handler, which are at most the invocations of os_handler.
C20_NoSpuriousWakeup ==
    /\ hist.waitOk <= hist.writes
    /\ hist.writes <= hist.delivered

\* Two signals reached os_handler, one write succeeded and one call returned.
C20_Witness ==
    /\ hist.delivered = 2 /\ hist.writes = 1 /\ hist.waitOk = 1
    /\ wpc = "idle" /\ wait_ret = "Ok"

\* A pipe whose install returned Ok(()) and which a later call has replaced
\* in PIPE: a newer pipe exists and its store to PIPE is complete.
Superseded(p) ==
    /\ p \in hist.okPipes
    /\ nPipes > p
    /\ ~(nPipes = p + 1 /\ ipc = "store")

\* C19: no call of init_os_handler closes a descriptor of a pipe whose
\* install returned Ok(()); a later call that creates a pipe stores the new
\* descriptors in PIPE, after which PIPE holds neither descriptor of the
\* earlier pipe, no read of block_ctrl_c starts on the earlier pipe, and its
\* pending bytes are taken by no call other than one already reading it.
C19_FirstPipeLeaked ==
    /\ [](\A p \in hist.okPipes : OpenEnds(p, "r") # {} /\ OpenEnds(p, "w") # {})
    /\ [][(ipc = "store" /\ ipc' = "setfl")
            => (PIPE' = newpipe /\ fdt[PIPE'[1]].pipe = nPipes
                /\ fdt[PIPE'[2]].pipe = nPipes /\ nPipes \notin hist.okPipes)]_vars
    /\ [](\A p \in PipeIds : Superseded(p)
            => (PIPE[1] \notin OpenEnds(p, "r") /\ PIPE[2] \notin OpenEnds(p, "w")
                /\ PIPE[1] \notin OpenEnds(p, "w") /\ PIPE[2] \notin OpenEnds(p, "r")))
    /\ [][(wpc = "loop" /\ wpc' = "inread") => ~Superseded(wpipe')]_vars
    /\ [][\A p \in PipeIds : (Superseded(p) /\ wpipe # p) => pending'[p] >= pending[p]]_vars

\* The second install returned Ok(()); a byte is still pending in the first
\* pipe while a later block_ctrl_c call sleeps on the empty second pipe.
C19_Witness ==
    /\ hist.okPipes = {1, 2} /\ Superseded(1) /\ ipc = "idle" /\ init_ret = "Ok"
    /\ pending[1] = 1 /\ pending[2] = 0
    /\ wpc = "inread" /\ wpipe = 2

====
